---- MODULE Spec2Model ----
(***************************************************************************)
(* A model of src/scraper.py: main's outer attempt/retry loop, the inner   *)
(* collect / extract / paginate loop, the session guardian                 *)
(* (check_session, recover_session), the record extractor                  *)
(* (extract_movie_data) and the checkpoint writer (save_progress).         *)
(*                                                                         *)
(* The browser, the site and the file system are the environment: every    *)
(* call on them draws its outcome with \E from the outcomes that call can  *)
(* have.  A title is a sequence of one-character strings.                  *)
(***************************************************************************)
EXTENDS Integers, Sequences, FiniteSets, TLC

VARIABLES
    pc,          \* main's position (the line it is about to run)
    attempt,     \* main: attempt
    driver,      \* main: driver; 0 is None, else a session id
    all_movies,  \* main: all_movies, a sequence of <<title, storyline>>
    containers,  \* main: len(containers), the number of handles collected
    idx,         \* position of the for loop of line 161 in containers
    new_movies,  \* main: new_movies
    sessions,    \* every browser session constructed so far: id -> status
    stale,       \* the page was reloaded since containers was collected
    file,        \* the content of CSV_FILE
    checkpoint,  \* history: the rows of the last write that completed
    reported,    \* the count printed by line 207; -1 before
    final,       \* history: "none", or the outcome of line 205's save_progress
    ev,          \* history: what the last step of main did
    raw_text,    \* line 94: the text read from a title element
    norm_title   \* line 95: title, NotRun before line 95 has run

vars == <<pc, attempt, driver, all_movies, containers, idx, new_movies,
          sessions, stale, file, checkpoint, reported, final, ev,
          raw_text, norm_title>>

---------------------------------------------------------------------------
(* Configuration, lines 17-23.  MAX_MOVIES (4000) and the checkpoint       *)
(* interval (the literal 250 of line 171) are scaled down so that the      *)
(* accumulator reaches them; MAX_RETRIES is the program's.                 *)

MAX_MOVIES == 3

CHECKPOINT_INTERVAL == 2

MAX_RETRIES == 3

\* The most handles one collection returns.
PageSize == 2

\* The most browser sessions the environment lets a run construct.
MaxSessions == 3

---------------------------------------------------------------------------
(* Text: str.split('. ', 1)[-1] and str.strip() of line 95.                *)

RECURSIVE FindSep(_, _)
\* The first i >= from with s[i] = "." and s[i+1] = " "; 0 when there is none.
FindSep(s, from) ==
    IF from + 1 > Len(s) THEN 0
    ELSE IF s[from] = "." /\ s[from + 1] = " " THEN from
    ELSE FindSep(s, from + 1)

\* s.split('. ', 1)[-1]: what follows the first ". ", or s when there is none.
SplitLast(s) ==
    LET k == FindSep(s, 1)
    IN  IF k = 0 THEN s ELSE SubSeq(s, k + 2, Len(s))

RECURSIVE LStrip(_)
LStrip(s) == IF s # <<>> /\ Head(s) = " " THEN LStrip(Tail(s)) ELSE s

RECURSIVE RStrip(_)
RStrip(s) ==
    IF s # <<>> /\ s[Len(s)] = " " THEN RStrip(SubSeq(s, 1, Len(s) - 1)) ELSE s

Strip(s) == LStrip(RStrip(s))

\* A normalisation that forgets the trim.
NormalizeTitleNoStrip(text) == SplitLast(text)

\* Line 95.
NormalizeTitle(text) == Strip(SplitLast(text))

\* The value of norm_title before line 95 has run: no text normalises to it.
NotRun == <<"not run">>

\* The texts lines 94-95 are run on: every text of at most MaxLen characters
\* of Alphabet that an element's text can be (WebDriver returns the
\* rendered text, which has no leading or trailing blank).
MaxLen == 4

Alphabet == {"1", ".", " ", "M", "C"}

RawTexts ==
    { s \in UNION { [1..n -> Alphabet] : n \in 0..MaxLen } : Strip(s) = s }

---------------------------------------------------------------------------
(* The listing.  An item handle is an opaque reference into the page: its  *)
(* elements are looked up, and their text read, when extract_movie_data    *)
(* runs on it.  What a handle then shows is an entry of Catalog: a title   *)
(* element (or none) and the text of each of the three storyline selectors *)
(* of lines 99-101 (or no such element).                                   *)

NoElem == [found |-> FALSE, text |-> <<>>]

Elem(t) == [found |-> TRUE, text |-> t]

Catalog ==
    << [title |-> Elem(<<"1", ".", " ", "A">>), story |-> <<Elem(<<"x">>), NoElem, NoElem>>],
       [title |-> Elem(<<"A">>),                story |-> <<NoElem, Elem(<<" ">>), Elem(<<"x">>)>>],
       [title |-> Elem(<<"2", ".", " ", "B">>), story |-> <<NoElem, NoElem, NoElem>>],
       [title |-> Elem(<<"M", ".", " ", "C">>), story |-> <<Elem(<<>>), Elem(<<"z">>), NoElem>>],
       [title |-> Elem(<<"3", ".", " ">>),      story |-> <<Elem(<<"x">>), NoElem, NoElem>>],
       [title |-> NoElem,                       story |-> <<Elem(<<"x">>), NoElem, NoElem>>] >>

\* The numbers of handles find_elements can return.
Pages == 0..PageSize

\* "No description available", line 98.
Placeholder == <<"-">>

RECURSIVE FirstStory(_, _)
\* Lines 99-108: the first selector whose element exists with non-empty
\* stripped text wins; a missing element is skipped.
FirstStory(story, i) ==
    IF i > Len(story) THEN Placeholder
    ELSE IF story[i].found /\ Strip(story[i].text) # <<>> THEN Strip(story[i].text)
    ELSE FirstStory(story, i + 1)

Titles(movies) == { movies[i][1] : i \in 1..Len(movies) }

---------------------------------------------------------------------------
(* Browser sessions.  sessions[i] is the status of the i-th session that   *)
(* setup_driver constructed: "live", "crashed" (the environment killed it; *)
(* every command on it raises) or "closed" (quit was called on it).        *)

Usable(S, d) == d # 0 /\ S[d] = "live"

\* driver.quit(): the Chrome driver's quit swallows its own faults.
Quit(S, d) == IF d = 0 THEN S ELSE [S EXCEPT ![d] = "closed"]

\* Whether the environment can still construct a session.
CanConstruct(S) == Len(S) < MaxSessions

\* Lines 61-67, check_session.  probe: the script call on a live session
\* returned (a fault of it, or an interrupt landing in it, is caught by the
\* bare except and gives False).
check_session(S, d, probe) == Usable(S, d) /\ probe

\* A recovery that quits the session once the soft refresh has worked.
recover_session_quits(S, d, t1, su, nav) ==
    IF Usable(S, d) /\ t1
    THEN [ok |-> TRUE, sessions |-> Quit(S, d), reloaded |-> TRUE, tier |-> "soft"]
    ELSE IF su /\ CanConstruct(S)
         THEN [ok |-> nav, sessions |-> Append(Quit(S, d), "live"), reloaded |-> FALSE,
               tier |-> IF nav THEN "hard" ELSE "failed"]
         ELSE [ok |-> FALSE, sessions |-> Quit(S, d), reloaded |-> FALSE,
               tier |-> "failed"]

\* Lines 69-84, recover_session.  t1: the refresh and the wait for the list
\* marker both returned; su: setup_driver returned a session; nav: get(url)
\* returned.  The session of line 80 is bound to the local name driver
\* only: the caller's handle d is never rebound.
\* tier names the way it came back: "soft" (line 76), "hard" (line 82) or
\* "failed" (line 84).
recover_session(S, d, t1, su, nav) ==
    IF Usable(S, d) /\ t1
    THEN [ok |-> TRUE, sessions |-> S, reloaded |-> TRUE, tier |-> "soft"]
    ELSE IF su /\ CanConstruct(S)
         THEN [ok |-> nav, sessions |-> Append(Quit(S, d), "live"), reloaded |-> FALSE,
               tier |-> IF nav THEN "hard" ELSE "failed"]
         ELSE [ok |-> FALSE, sessions |-> Quit(S, d), reloaded |-> FALSE,
               tier |-> "failed"]

---------------------------------------------------------------------------
(* The record extractor, lines 86-114.                                     *)

\* Lines 89-110, the body of the try.  exc names what it raises: "none",
\* "recovery_failed" (line 91) or "item" (a lookup on the handle raised:
\* the handle's session is gone, the page was reloaded under it, or it has
\* no title element).  The handle c belongs to the session d it was
\* collected on, whatever recover_session constructed since.
ExtractBody(S, d, c, isStale, probe, t1, su, nav) ==
    LET alive == check_session(S, d, probe)
        rec   == IF alive
                 THEN [ok |-> TRUE, sessions |-> S, reloaded |-> FALSE, tier |-> "none"]
                 ELSE recover_session(S, d, t1, su, nav)
        gone  == ~Usable(rec.sessions, d) \/ isStale \/ rec.reloaded
        exc   == IF ~rec.ok THEN "recovery_failed"
                 ELSE IF gone \/ ~c.title.found THEN "item"
                 ELSE "none"
    IN  [exc       |-> exc,
         title     |-> IF exc = "none" THEN NormalizeTitle(c.title.text) ELSE <<>>,
         storyline |-> IF exc = "none" THEN FirstStory(c.story, 1) ELSE <<>>,
         sessions  |-> rec.sessions,
         stale     |-> isStale \/ rec.reloaded,
         tier      |-> rec.tier]

\* An extractor that lets the fault of a lookup out to its caller.
extract_movie_data_raises(body) ==
    [kind      |-> IF body.exc = "none" THEN "return" ELSE "raise",
     ok        |-> body.exc = "none",
     title     |-> body.title,
     storyline |-> body.storyline]

\* Lines 88-114: what the caller gets.  kind is "return" or "raise"; every
\* exception the body raises is an Exception, so line 112 catches it and
\* line 114 returns (None, None), written here as ok = FALSE.
extract_movie_data(body) ==
    [kind      |-> "return",
     ok        |-> body.exc = "none",
     title     |-> body.title,
     storyline |-> body.storyline]

\* A filter without the truth test on title.
KeepUntitled(res, movies) ==
    res.ok /\ res.title \notin Titles(movies)

\* Line 163: title and title not in [m[0] for m in all_movies].
Keep(res, movies) ==
    res.ok /\ res.title # <<>> /\ res.title \notin Titles(movies)

---------------------------------------------------------------------------
(* The checkpoint writer, lines 116-125.  The file is opened with "w",     *)
(* which truncates it; then the header and the rows are written.  A fault  *)
(* is caught and logged.  Outcomes: "ok"; "open" (open raised: the file is *)
(* as it was); "write" (a write raised after the open had truncated the    *)
(* file: of the prefixes that can be left behind the model keeps the       *)
(* shortest, the empty file).                                              *)

NoFile == [exists |-> FALSE, header |-> FALSE, rows |-> <<>>]

SaveOutcomes == {"ok", "open", "write"}

Truncated == [exists |-> TRUE, header |-> FALSE, rows |-> <<>>]

\* A writer that opens the file with "a" instead of "w".
save_progress_append(movies, f, o) ==
    CASE o = "ok"    -> [exists |-> TRUE, header |-> TRUE, rows |-> f.rows \o movies]
      [] o = "open"  -> f
      [] o = "write" -> [f EXCEPT !.exists = TRUE]

save_progress(movies, f, o) ==
    CASE o = "ok"    -> [exists |-> TRUE, header |-> TRUE, rows |-> movies]
      [] o = "open"  -> f
      [] o = "write" -> Truncated

\* Line 171: the periodic save is due.
SaveDue(n) == n % CHECKPOINT_INTERVAL = 0

---------------------------------------------------------------------------
(* History: what the last step of main did.                                *)
(*   step   the position it ran                                            *)
(*   dead   it issued a command on main's session and found it dead        *)
(*   raised what the body of extract_movie_data raised in it               *)
(*   save   "none", or the outcome kind of the save_progress it called     *)
(*   before len(all_movies) before the extend of line 167 (PostExtract)    *)
(*   prior  the number of rows of the last completed write before that     *)
(*          save_progress                                                  *)
(*   recovery  how the recover_session it called came back, or "none"      *)
(*   on     the session its lookups on the handle (lines 94-108) were      *)
(*          issued on, 0 if it made none                                   *)
(*   kept   what lines 162-164 did with the handle: "appended",            *)
(*          "duplicate", "empty" (no title text), "failed" (no result)     *)
(*   faulted  a handle of this cycle, this one included, ended in an item  *)
(*          fault                                                          *)
(*   click  how safe_click ended: "timeout" (the control never became      *)
(*          clickable), "pointer", "script" or "failed"                    *)

Ev(step, dead, raised, save) ==
    [step |-> step, dead |-> dead, raised |-> raised, save |-> save,
     before |-> 0, prior |-> 0, recovery |-> "none", on |-> 0,
     kept |-> "none", faulted |-> FALSE, click |-> "none"]

Plain(step) == Ev(step, FALSE, "none", "none")

Init ==
    /\ pc = "attempt_check"
    /\ attempt = 0
    /\ driver = 0
    /\ all_movies = <<>>
    /\ containers = 0
    /\ idx = 1
    /\ new_movies = <<>>
    /\ sessions = <<>>
    /\ stale = FALSE
    /\ file \in {NoFile}
    /\ checkpoint = <<>>
    /\ reported = -1
    /\ final = "none"
    /\ ev = Plain("init")
    /\ raw_text = <<>>
    /\ norm_title = NotRun

---------------------------------------------------------------------------
(* main, lines 141-207, one action per step.  An outcome "fatal" is an     *)
(* InvalidSessionIdException or WebDriverException (every Selenium fault), *)
(* "other" any other Exception (the driver manager's, the HTTP client's).  *)

\* A loop test that is off by one.
HasBudgetInclusive(a) == a <= MAX_RETRIES

\* Line 146: while attempt < MAX_RETRIES.
HasBudget(a) == a < MAX_RETRIES

\* Line 146.
AttemptCheck ==
    /\ pc = "attempt_check"
    /\ pc' = IF HasBudget(attempt) THEN "setup" ELSE "final_save"
    /\ ev' = Plain("attempt_check")
    /\ UNCHANGED <<attempt, driver, all_movies, containers, idx, new_movies,
                   sessions, stale, file, checkpoint, reported, final>>
    /\ UNCHANGED <<raw_text, norm_title>>

\* Line 149, driver = setup_driver().  On a fault driver keeps its value.
SetupDriver ==
    /\ pc = "setup"
    /\ \E o \in {"ok", "fatal", "other"} :
          /\ o = "ok" => CanConstruct(sessions)
          /\ IF o = "ok"
             THEN /\ sessions' = Append(sessions, "live")
                  /\ driver' = Len(sessions) + 1
                  /\ pc' = "get"
             ELSE /\ UNCHANGED <<sessions, driver>>
                  /\ pc' = IF o = "fatal" THEN "session_crash" ELSE "critical"
    /\ ev' = Plain("setup")
    /\ UNCHANGED <<attempt, all_movies, containers, idx, new_movies, stale,
                   file, checkpoint, reported, final>>
    /\ UNCHANGED <<raw_text, norm_title>>

\* Lines 150-151, driver.get(BASE_URL) and the settle sleep.
Navigate ==
    /\ pc = "get"
    /\ \E o \in {"ok", "fatal", "other"} :
          /\ o = "ok" => Usable(sessions, driver)
          /\ pc' = CASE o = "ok"    -> "loop_check"
                     [] o = "fatal" -> "session_crash"
                     [] o = "other" -> "critical"
    /\ ev' = Plain("get")
    /\ UNCHANGED <<attempt, driver, all_movies, containers, idx, new_movies,
                   sessions, stale, file, checkpoint, reported, final>>
    /\ UNCHANGED <<raw_text, norm_title>>

\* Line 153; when the condition is false the loop ends and line 192 breaks.
LoopCheck ==
    /\ pc = "loop_check"
    /\ pc' = IF Len(all_movies) < MAX_MOVIES THEN "scrape" ELSE "final_save"
    /\ ev' = Plain("loop_check")
    /\ UNCHANGED <<attempt, driver, all_movies, containers, idx, new_movies,
                   sessions, stale, file, checkpoint, reported, final>>
    /\ UNCHANGED <<raw_text, norm_title>>

\* What scrape_page returns, lines 127-139: the handles on the page, or []
\* after any fault (a timeout, a dead session: line 137 catches them all).
ScrapeResults(S, d) == IF Usable(S, d) THEN Pages ELSE {0}

\* A loop that takes an empty page for a session failure.
AfterScrapeCrash(n) == IF n = 0 THEN "session_crash" ELSE "extract"

\* Lines 156-157: an empty result breaks out of the collection loop, and
\* line 192 out of the attempt loop.
AfterScrape(n) == IF n = 0 THEN "final_save" ELSE "extract"

\* Lines 155-160.
ScrapePage ==
    /\ pc = "scrape"
    /\ \E page \in ScrapeResults(sessions, driver) :
          /\ containers' = page
          /\ pc' = AfterScrape(page)
    /\ idx' = 1
    /\ new_movies' = <<>>
    /\ stale' = FALSE
    /\ ev' = Ev("scrape", ~Usable(sessions, driver), "none", "none")
    /\ UNCHANGED <<attempt, driver, all_movies, sessions, file, checkpoint,
                   reported, final>>
    /\ UNCHANGED <<raw_text, norm_title>>

\* The outcomes of the session calls one extract_movie_data makes: probe
\* (line 64), t1 (lines 72-75), su (line 80), nav (line 81).  A call that
\* is not made has no outcome, written FALSE: recover_session runs only
\* after the probe failed, its second tier only after the first failed,
\* and get only on a session setup_driver returned.
SessionOutcomes ==
    { o \in [probe : BOOLEAN, t1 : BOOLEAN, su : BOOLEAN, nav : BOOLEAN] :
        /\ o.probe => ~o.t1 /\ ~o.su /\ ~o.nav
        /\ o.t1 => ~o.su /\ ~o.nav
        /\ o.nav => o.su }

\* Where main goes when extract_movie_data raises: whatever its body can
\* raise is a Selenium fault, a WebDriverException, which line 194 catches.
AfterRaise(res) == "session_crash"

\* Lines 162-164, by cases.
Kept(res, movies) ==
    IF ~res.ok THEN "failed"
    ELSE IF res.title = <<>> THEN "empty"
    ELSE IF \E i \in 1..Len(movies) : movies[i][1] = res.title THEN "duplicate"
    ELSE "appended"

\* Lines 161-164, one turn of the for loop.
Extract ==
    /\ pc = "extract"
    /\ \E o \in SessionOutcomes, c \in 1..Len(Catalog) :
          LET body == ExtractBody(sessions, driver, Catalog[c],
                                  stale, o.probe, o.t1, o.su, o.nav)
              res  == extract_movie_data(body)
          IN  /\ sessions' = body.sessions
              /\ stale' = body.stale
              /\ ev' = [Ev("extract", ~Usable(sessions, driver), body.exc, "none")
                           EXCEPT !.recovery = body.tier,
                                  !.on = IF body.exc = "recovery_failed" THEN 0 ELSE driver,
                                  !.kept = Kept(res, all_movies),
                                  !.faulted = \/ body.exc = "item"
                                              \/ (ev.step = "extract" /\ ev.faulted)]
              /\ IF res.kind = "raise"
                 THEN /\ pc' = AfterRaise(res)
                      /\ UNCHANGED <<new_movies, idx>>
                 ELSE /\ new_movies' = IF Keep(res, all_movies)
                                       THEN Append(new_movies, <<res.title, res.storyline>>)
                                       ELSE new_movies
                      /\ idx' = idx + 1
                      /\ pc' = IF idx = containers THEN "post_extract" ELSE "extract"
    /\ UNCHANGED <<attempt, driver, all_movies, containers, file, checkpoint,
                   reported, final>>
    /\ UNCHANGED <<raw_text, norm_title>>

\* A periodic save that writes the cycle's batch only.
PeriodicRowsNew(all, new) == new

\* Line 172: the rows the periodic save hands to save_progress.
PeriodicRows(all, new) == all

\* Lines 166-174.
PostExtract ==
    /\ pc = "post_extract"
    /\ LET grown == all_movies \o new_movies
       IN  /\ all_movies' = grown
           /\ IF new_movies # <<>> /\ SaveDue(Len(grown))
              THEN \E o \in SaveOutcomes :
                      /\ file' = save_progress(PeriodicRows(grown, new_movies), file, o)
                      /\ checkpoint' = IF o = "ok" THEN file'.rows ELSE checkpoint
                      /\ ev' = [Ev("post_extract", FALSE, "none", o)
                                   EXCEPT !.before = Len(all_movies),
                                          !.prior = Len(checkpoint)]
              ELSE /\ UNCHANGED <<file, checkpoint>>
                   /\ ev' = [Plain("post_extract") EXCEPT !.before = Len(all_movies)]
    /\ pc' = "cap_check"
    /\ UNCHANGED <<attempt, driver, containers, idx, new_movies, sessions,
                   stale, reported, final>>
    /\ UNCHANGED <<raw_text, norm_title>>

\* Lines 177-178.
CapCheck ==
    /\ pc = "cap_check"
    /\ pc' = IF Len(all_movies) >= MAX_MOVIES THEN "final_save" ELSE "paginate"
    /\ ev' = Plain("cap_check")
    /\ UNCHANGED <<attempt, driver, all_movies, containers, idx, new_movies,
                   sessions, stale, file, checkpoint, reported, final>>
    /\ UNCHANGED <<raw_text, norm_title>>

\* A click helper without the script fallback.
safe_click_pointer(first, second) == first

\* Lines 45-59, safe_click: the pointer click, and the script click only
\* after the pointer click faulted.
safe_click(first, second) == first \/ second

\* Lines 181-185 and 47-59 by cases: which call settled the pagination.
ClickTrace(o) ==
    IF ~o.clickable THEN "timeout"
    ELSE IF o.first THEN "pointer"
    ELSE IF o.second THEN "script"
    ELSE "failed"

\* The outcomes of the calls of the pagination block: clickable (the wait
\* of line 181 returned the button), first (lines 48-50), second (line 55).
\* safe_click runs only with a button, and its second click only after the
\* first faulted; a call that is not made has no outcome, written FALSE.
ClickOutcomes ==
    { o \in [clickable : BOOLEAN, first : BOOLEAN, second : BOOLEAN] :
        /\ ~o.clickable => ~o.first /\ ~o.second
        /\ o.first => ~o.second }

\* Lines 180-189.  Every fault, of the wait or raised by line 185, is caught
\* by line 187.  On a dead session every call faults.
Paginate ==
    /\ pc = "paginate"
    /\ \E o \in ClickOutcomes :
          /\ o.clickable => Usable(sessions, driver)
          /\ pc' = IF o.clickable /\ safe_click(o.first, o.second)
                   THEN "loop_check" ELSE "final_save"
          /\ ev' = [Ev("paginate", ~Usable(sessions, driver), "none", "none")
                       EXCEPT !.click = ClickTrace(o)]
    /\ UNCHANGED <<attempt, driver, all_movies, containers, idx, new_movies,
                   sessions, stale, file, checkpoint, reported, final>>
    /\ UNCHANGED <<raw_text, norm_title>>

\* A handler that forgets the quit.
CrashTeardownNone(S, d) == S

\* Line 197: if driver: driver.quit().
CrashTeardown(S, d) == Quit(S, d)

\* Lines 194-198, the backoff sleep of line 198 included.
SessionCrash ==
    /\ pc = "session_crash"
    /\ attempt' = attempt + 1
    /\ sessions' = CrashTeardown(sessions, driver)
    /\ pc' = "attempt_check"
    /\ ev' = Plain("session_crash")
    /\ UNCHANGED <<driver, all_movies, containers, idx, new_movies, stale,
                   file, checkpoint, reported, final>>
    /\ UNCHANGED <<raw_text, norm_title>>

\* A handler that retries where the code gives up.
AfterCriticalRetry == "session_crash"

\* Line 202: break leaves the attempt loop for line 205.
AfterCritical == "final_save"

\* Lines 200-202.
Critical ==
    /\ pc = "critical"
    /\ pc' = AfterCritical
    /\ ev' = Plain("critical")
    /\ UNCHANGED <<attempt, driver, all_movies, containers, idx, new_movies,
                   sessions, stale, file, checkpoint, reported, final>>
    /\ UNCHANGED <<raw_text, norm_title>>

\* Line 205.
FinalSave ==
    /\ pc = "final_save"
    /\ \E o \in SaveOutcomes :
          /\ file' = save_progress(all_movies, file, o)
          /\ checkpoint' = IF o = "ok" THEN file'.rows ELSE checkpoint
          /\ ev' = [Ev("final_save", FALSE, "none", o) EXCEPT !.prior = Len(checkpoint)]
          /\ final' = o
    /\ pc' = "final_quit"
    /\ UNCHANGED <<attempt, driver, all_movies, containers, idx, new_movies,
                   sessions, stale, reported>>
    /\ UNCHANGED <<raw_text, norm_title>>

\* Line 206.
FinalQuit ==
    /\ pc = "final_quit"
    /\ sessions' = Quit(sessions, driver)
    /\ pc' = "report"
    /\ ev' = Plain("final_quit")
    /\ UNCHANGED <<attempt, driver, all_movies, containers, idx, new_movies,
                   stale, file, checkpoint, reported, final>>
    /\ UNCHANGED <<raw_text, norm_title>>

\* Line 207; main returns.
Report ==
    /\ pc = "report"
    /\ reported' = Len(all_movies)
    /\ pc' = "done"
    /\ ev' = Plain("report")
    /\ UNCHANGED <<attempt, driver, all_movies, containers, idx, new_movies,
                   sessions, stale, file, checkpoint, final>>
    /\ UNCHANGED <<raw_text, norm_title>>

---------------------------------------------------------------------------
(* The environment.                                                        *)

\* The session main drives dies (the browser or its driver process
\* crashes).  The sessions recover_session left behind are never driven
\* again, so whether they die is not observed.
EnvCrash ==
    /\ pc \notin {"done", "killed"}
    /\ Usable(sessions, driver)
    /\ sessions' = [sessions EXCEPT ![driver] = "crashed"]
    /\ UNCHANGED <<pc, attempt, driver, all_movies, containers, idx,
                   new_movies, stale, file, checkpoint, reported, final, ev>>
    /\ UNCHANGED <<raw_text, norm_title>>

\* Where a KeyboardInterrupt delivered at position p takes main.  It is a
\* BaseException: the except clauses of lines 194 and 200 (and 112, 124,
\* 137) do not catch it and main has no finally, so it ends the process;
\* only the bare except of line 187 catches it, as a pagination failure.
InterruptTarget(p) == IF p = "paginate" THEN "final_save" ELSE "killed"

\* The process is interrupted from outside.
Interrupt ==
    /\ pc \notin {"done", "killed"}
    /\ pc' = InterruptTarget(pc)
    /\ ev' = Plain("interrupt")
    /\ UNCHANGED <<attempt, driver, all_movies, containers, idx, new_movies,
                   sessions, stale, file, checkpoint, reported, final>>
    /\ UNCHANGED <<raw_text, norm_title>>

Main ==
    \/ AttemptCheck
    \/ SetupDriver
    \/ Navigate
    \/ LoopCheck
    \/ ScrapePage
    \/ Extract
    \/ PostExtract
    \/ CapCheck
    \/ Paginate
    \/ SessionCrash
    \/ Critical
    \/ FinalSave
    \/ FinalQuit
    \/ Report

\* A run nobody interrupts.
Next == Main \/ EnvCrash

\* Lines 94-95 on their own: a title element with any text of RawTexts.
TitleInit ==
    /\ pc = "extract"
    /\ attempt = 0
    /\ driver = 1
    /\ all_movies = <<>>
    /\ containers = 1
    /\ idx = 1
    /\ new_movies = <<>>
    /\ sessions = <<"live">>
    /\ stale = FALSE
    /\ file = NoFile
    /\ checkpoint = <<>>
    /\ reported = -1
    /\ final = "none"
    /\ ev = Plain("scrape")
    /\ raw_text \in RawTexts
    /\ norm_title = NotRun

\* Line 95 on the text of line 94.
ReadTitle ==
    /\ pc = "extract"
    /\ norm_title = NotRun
    /\ norm_title' = NormalizeTitle(raw_text)
    /\ UNCHANGED <<pc, attempt, driver, all_movies, containers, idx, new_movies,
                   sessions, stale, file, checkpoint, reported, final, ev,
                   raw_text>>

TitleSpec == TitleInit /\ [][ReadTitle]_vars

Spec == Init /\ [][Next]_vars

\* Every call returns or faults in bounded time and the interpreter keeps
\* running main: main takes its next step until it returns.
FairSpec == Spec /\ WF_vars(Main)

\* A run that may be interrupted from outside at any point.
NextInterruptible == Next \/ Interrupt

SpecInterruptible == Init /\ [][NextInterruptible]_vars

---------------------------------------------------------------------------
(* Properties.                                                             *)

Live == { i \in 1..Len(sessions) : sessions[i] = "live" }

HandleClosed == driver # 0 => sessions[driver] = "closed"

Ended == pc \in {"done", "killed"}

\* C1: the accumulator never holds two records with equal title, also when
\* two handles of one collection give the same normalized title.
NoDuplicateTitles ==
    \A i, j \in 1..Len(all_movies) :
        i # j => all_movies[i][1] # all_movies[j][1]

\* C2: the accumulator is never longer than MAX_MOVIES.
TargetCap == Len(all_movies) <= MAX_MOVIES

\* C3: at most one session is live at any time; every session constructed
\* in an attempt is closed when the attempt has ended in a retry, and none
\* is live once main has returned.
SessionOwnership ==
    /\ Cardinality(Live) <= 1
    /\ pc = "attempt_check" => \A i \in 1..Len(sessions) : sessions[i] = "closed"
    /\ pc = "done" => Live = {}

\* C4: a step of Collecting, Extracting or Paginating that finds main's
\* session dead takes main to the session-fatal handler of line 194.
DeadSessionEscalates == ev.dead => pc = "session_crash"

\* C5: when recovery fails inside extract_movie_data, the fatal error of
\* line 91 reaches the session-fatal handler of main.
RecoveryFailurePropagates == ev.raised = "recovery_failed" => pc = "session_crash"

\* The state the final path leaves when its write completed.
Finalised ==
    /\ pc = "done"
    /\ final # "none"
    /\ HandleClosed
    /\ reported = Len(all_movies)

InterruptedRunFinalises == Ended => (final # "none" /\ HandleClosed)

\* Some multiple of the checkpoint interval lies in (a, b].
Crossed(a, b) == \E k \in 1..b : a < k * CHECKPOINT_INTERVAL /\ k * CHECKPOINT_INTERVAL <= b

\* C8: a cycle that takes the accumulator's length across a multiple of the
\* checkpoint interval writes a checkpoint.
CrossingWritesCheckpoint ==
    (ev.step = "post_extract" /\ Crossed(ev.before, Len(all_movies)))
        => ev.save # "none"

RetryCarriesAccumulator ==
    [][/\ (pc = "session_crash" /\ pc' = "attempt_check") =>
             /\ attempt' = attempt + 1
             /\ all_movies' = all_movies
             /\ driver # 0 => sessions'[driver] = "closed"
       /\ (pc = "attempt_check" /\ attempt < MAX_RETRIES /\ pc' # pc) =>
             /\ pc' = "setup"
             /\ all_movies' = all_movies
             /\ HandleClosed
       /\ (pc = "setup" /\ pc' = "get") =>
             /\ all_movies' = all_movies
             /\ driver' = Len(sessions) + 1
             /\ sessions'[driver'] = "live"]_vars

\* C10 witness: attempt 2 has its new session after attempt 1's was torn
\* down by the handler.
RetryWitness ==
    /\ pc = "get"
    /\ attempt = 1
    /\ driver = 2
    /\ sessions[1] = "closed"
    /\ sessions[2] = "live"

\* C11: attempt changes only by +1 and only in the session-fatal handler;
\* an attempt starts only with attempt < MAX_RETRIES, and a further one
\* only after the handler ran, so a run starts at most MAX_RETRIES; once
\* attempt = MAX_RETRIES no session is constructed and main is on its way
\* out through the final save.
BoundedRetry ==
    [][/\ attempt' # attempt => (attempt' = attempt + 1 /\ pc = "session_crash")
       /\ attempt' <= MAX_RETRIES
       /\ (pc' = "setup" /\ pc # "setup") => (pc = "attempt_check" /\ attempt < MAX_RETRIES)
       /\ (pc' = "attempt_check" /\ pc # "attempt_check") => attempt' = attempt + 1
       /\ attempt = MAX_RETRIES =>
             /\ Len(sessions') = Len(sessions)
             /\ pc' \in {"attempt_check", "final_save", "final_quit", "report", "done"}]_vars

\* C11 witness: a run that used its whole budget and returned.
BoundedRetryWitness ==
    /\ pc = "done"
    /\ attempt = MAX_RETRIES
    /\ final # "none"

\* C12: a fault of the outer level that is not session-fatal ends the run at
\* once: the handler leaves attempt alone and goes to the final save, from
\* there on no attempt starts and no session is constructed, and the final
\* save_progress is run before main returns.
CriticalAborts ==
    /\ [][(pc = "critical" /\ pc' # pc) =>
             /\ pc' = "final_save"
             /\ attempt' = attempt
             /\ Len(sessions') = Len(sessions)]_vars
    /\ [][(pc \in {"final_save", "final_quit", "report", "done"}) =>
             /\ attempt' = attempt
             /\ Len(sessions') = Len(sessions)
             /\ pc' \in {"final_save", "final_quit", "report", "done"}]_vars
    /\ (pc = "critical") ~> (pc = "done" /\ final # "none")

\* C12 witness: the handler of line 200 ran in the second attempt.
CriticalAbortsWitness ==
    /\ ev.step = "critical"
    /\ pc = "final_save"
    /\ attempt = 1
    /\ driver # 0

\* C13: when recover_session comes back through its soft refresh, the step
\* tears no session down and constructs none, main's handle is as it was
\* and still drives a live session, and the extraction goes on.
SoftRecoveryContained ==
    [][(pc = "extract" /\ idx' # idx /\ ev'.recovery = "soft") =>
          /\ sessions' = sessions
          /\ driver' = driver
          /\ Usable(sessions', driver')
          /\ ev'.raised # "recovery_failed"]_vars

\* C13 witness: a soft refresh has just succeeded in the extractor.
SoftRecoveryWitness ==
    /\ ev.step = "extract"
    /\ ev.recovery = "soft"
    /\ Usable(sessions, driver)

HeaderOnly == [exists |-> TRUE, header |-> TRUE, rows |-> <<>>]

\* C14: an empty result of scrape_page ends the attempt without a retry:
\* attempt and the accumulator are as they were, main goes to the final
\* save and from there only to its return, with no extraction or
\* pagination.  On the first call (containers still has the 0 it starts
\* with) the accumulator is empty, and the file a completed final save
\* leaves for an empty accumulator holds the header row only.
EmptyPageCompletes ==
    /\ [][(pc = "scrape" /\ pc' # pc /\ containers' = 0) =>
             /\ pc' = "final_save"
             /\ attempt' = attempt
             /\ all_movies' = all_movies
             /\ containers = 0 => all_movies' = <<>>]_vars
    /\ [][(pc \in {"final_save", "final_quit", "report"} /\ pc' # pc) =>
             /\ pc' \in {"final_quit", "report", "done"}
             /\ all_movies' = all_movies
             /\ attempt' = attempt
             /\ (all_movies = <<>> /\ final' = "ok") => file' = HeaderOnly]_vars
    /\ (pc = "final_save" /\ ev.step = "scrape") ~> (pc = "done")

\* C14 witness: the first call has just come back empty on a live session
\* and main stands before the final save with an empty accumulator.
EmptyPageWitness ==
    /\ pc = "final_save"
    /\ ev.step = "scrape"
    /\ ~ev.dead
    /\ containers = 0
    /\ attempt = 0
    /\ all_movies = <<>>
    /\ file = NoFile

\* C15: once the hard restart of recover_session has succeeded, what the
\* caller does next goes to the session it constructed (the last of
\* sessions): the lookups of the rest of that extraction, and main's
\* handle, on which collection, pagination and the final quit are issued.
HardRestartRebinds ==
    ev.recovery = "hard" =>
        /\ ev.on = Len(sessions)
        /\ driver = Len(sessions)

\* C16: an item fault in extract_movie_data costs that handle only: no
\* record is added for it, the for loop moves to the next handle (or, after
\* the last, to the extend of line 167), and the cycle goes on through the
\* cap test to the pagination.
ItemFaultContained ==
    /\ [][(pc = "extract" /\ (idx' # idx \/ pc' # pc) /\ ev'.raised = "item") =>
             /\ new_movies' = new_movies
             /\ all_movies' = all_movies
             /\ idx' = idx + 1
             /\ pc' = IF idx = containers THEN "post_extract" ELSE "extract"]_vars
    /\ [][(pc = "post_extract" /\ pc' # pc) => pc' = "cap_check"]_vars
    /\ [][(pc = "cap_check" /\ pc' # pc /\ Len(all_movies) < MAX_MOVIES) =>
             pc' = "paginate"]_vars

\* C16 witness: on a live, unreloaded page one handle of the cycle faulted
\* and a later one has been appended.
ItemFaultWitness ==
    /\ pc = "post_extract"
    /\ ev.step = "extract"
    /\ ev.faulted
    /\ ev.kept = "appended"
    /\ Len(new_movies) = 1
    /\ ~stale
    /\ Usable(sessions, driver)

\* C17: the pagination takes main back to the collection exactly when the
\* control became clickable and the pointer click, or after its fault the
\* script click, worked; in every other case main goes to the final save.
\* The accumulator is the same after the pagination and up to main's
\* return.
PaginationOutcome ==
    /\ [][(pc = "paginate" /\ pc' # pc) =>
             /\ pc' = "loop_check" <=> ev'.click \in {"pointer", "script"}
             /\ pc' # "loop_check" => pc' = "final_save"
             /\ all_movies' = all_movies]_vars
    /\ [][(pc \in {"final_save", "final_quit", "report"}) =>
             all_movies' = all_movies]_vars

\* C17 witness: with records collected, the script click has just sent
\* main back to the collection.
PaginationWitness ==
    /\ ev.step = "paginate"
    /\ ev.click = "script"
    /\ pc = "loop_check"
    /\ all_movies # <<>>

Digits == {"0", "1", "2", "3", "4", "5", "6", "7", "8", "9"}

RECURSIVE DigitRun(_, _)
\* The number of digits s has from position i on.
DigitRun(s, i) ==
    IF i <= Len(s) /\ s[i] \in Digits THEN 1 + DigitRun(s, i + 1) ELSE 0

\* s without its leading rank prefix, digits then ". ", when it has one.
StripRank(s) ==
    LET k == DigitRun(s, 1)
    IN  IF k >= 1 /\ Len(s) >= k + 2 /\ s[k + 1] = "." /\ s[k + 2] = " "
        THEN SubSeq(s, k + 3, Len(s))
        ELSE s

\* C18: the normalised title is the raw text without its leading
\* "<number>. " rank prefix when it has one, trimmed; a text without such
\* a prefix comes back as it is apart from the trim, ". " inside it or not.
TitleNormalization ==
    norm_title # NotRun => norm_title = Strip(StripRank(raw_text))

\* C19: no record of the accumulator, of the cycle's batch or of the file
\* has an empty title, and a handle whose title is missing or empty after
\* normalisation adds no record.
NoEmptyTitle ==
    /\ [](/\ \A i \in 1..Len(all_movies) : all_movies[i][1] # <<>>
          /\ \A i \in 1..Len(new_movies) : new_movies[i][1] # <<>>
          /\ \A i \in 1..Len(file.rows) : file.rows[i][1] # <<>>)
    /\ [][(pc = "extract" /\ idx' # idx /\ ev'.kept \in {"empty", "failed"}) =>
             new_movies' = new_movies]_vars

\* C19 witness: the extractor returned a title that is empty after
\* normalisation, and the handle was skipped.
NoEmptyTitleWitness ==
    /\ ev.step = "extract"
    /\ ev.kept = "empty"
    /\ ev.raised = "none"
    /\ idx = 2
    /\ new_movies = <<>>

\* C20: every run of main, each of its steps being taken in the end, leaves
\* both loops and runs the final save of line 205.
Termination == <>(final # "none")

====
